---- MODULE Spec2Model ----
(***************************************************************************)
(* Caption verification pipeline of main.py: the text-side noun extractor  *)
(* (extract_objects_with_llm), the image-side detector                     *)
(* (detect_objects_with_yolo), the orchestrator (verify_caption) and the   *)
(* command-line entry point (setup_environment, main).                     *)
(*                                                                         *)
(* Strings are sequences of one-character strings, so that lowercasing is  *)
(* computed character by character and is not the identity.                *)
(***************************************************************************)
EXTENDS Integers, Sequences, FiniteSets, TLC

\* ------------------------------------------------------------- bounds
\* Largest number of strings carried by one text-service response.
MaxItems == 2
\* Largest number of key/value pairs of a JSON object in a response.
MaxKeys == 2
\* Largest number of boxes the detector returns for one image.
MaxBoxes == 2

\* ------------------------------------------------------------- strings
Dog == <<"D", "o", "g">>
dog == <<"d", "o", "g">>
PaddedDog == <<" ", "d", "o", "g", " ">>
cat == <<"c", "a", "t">>
Cat == <<"C", "a", "t">>
tv == <<"t", "v">>

\* str.lower() on one character (the alphabet of the strings above).
LowerChar(c) ==
    CASE c = "D" -> "d"
      [] c = "C" -> "c"
      [] OTHER -> c

\* str(item).lower() / class_name.lower(): lowercases, does not trim.
Lower(s) == [i \in DOMAIN s |-> LowerChar(s[i])]

\* [str(item).lower() for item in extracted_list]
LowerAll(list) == [i \in DOMAIN list |-> Lower(list[i])]

\* set(list)
ToSet(list) == {list[i] : i \in DOMAIN list}

\* ------------------------------------------------------------- inputs
\* Values of os.environ.get("GROQ_API_KEY"): unset, set to "", set to a key.
KeyValues == {"None", "", "gsk"}

\* Strings the text service may put in its list.
Items == {Dog, PaddedDog, Cat}

\* model.names: the class labels of the detection model.
Labels == {dog, Cat, tv}

SeqsUpTo(S, n) == UNION {[1..k -> S] : k \in 0..n}

\* A value inside a JSON object: a list of strings, or something else.
ScalarValue == [kind |-> "scalar", items |-> <<>>]
ListValue(l) == [kind |-> "list", items |-> l]
ObjectValues == {ScalarValue} \cup {ListValue(l) : l \in SeqsUpTo(Items, MaxItems)}

RECURSIVE TotalItems(_)
TotalItems(values) ==
    IF values = <<>> THEN 0
    ELSE Len(Head(values).items) + TotalItems(Tail(values))

\* What client.chat.completions.create + json.loads can give:
\*   transport_error  the request raises
\*   invalid_json     the content is not JSON, json.loads raises
\*   list             the top-level value is a list of strings
\*   object           the top-level value is an object (values in key order)
\*   scalar           any other top-level value (number, string, null)
Response(k, l, vs) == [kind |-> k, items |-> l, values |-> vs]
NoResponse == Response("none", <<>>, <<>>)
LlmResponses ==
    {Response(k, <<>>, <<>>) : k \in {"transport_error", "invalid_json", "scalar"}}
    \cup {Response("list", l, <<>>) : l \in SeqsUpTo(Items, MaxItems)}
    \cup {Response("object", <<>>, vs) :
            vs \in {v \in SeqsUpTo(ObjectValues, MaxKeys) : TotalItems(v) <= MaxItems}}

\* What YOLO(...) and model(image_path) can give: an exception, or the class
\* labels of the boxes found (possibly none).
Results(k, bs) == [kind |-> k, boxes |-> bs]
NoResults == Results("none", <<>>)
YoloResults ==
    {Results("error", <<>>)} \cup {Results("ok", bs) : bs \in SeqsUpTo(Labels, MaxBoxes)}

\* ------------------------------------------------------------- state
VARIABLES
    pc,                   \* position of the process
    GROQ_API_KEY,         \* module global, read once at import
    asset_cached,         \* assets/dogs.jpg exists on disk
    data,                 \* this run's text-service response
    results,              \* this run's detector output
    caption_objects,      \* verify_caption local (a list)
    detected_objects,     \* detect_objects_with_yolo accumulator (a set)
    image_objects,        \* verify_caption local (list(set), order unused)
    verified_objects,     \* verify_caption local
    hallucinated_objects, \* verify_caption local
    calls,                \* trace of this run: what has been invoked, in order
    outcome,              \* how this run ended
    exit_status,          \* exit status of the process
    seen                  \* history: outcome of earlier runs, by input

vars == <<pc, GROQ_API_KEY, asset_cached, data, results, caption_objects,
          detected_objects, image_objects, verified_objects,
          hallucinated_objects, calls, outcome, exit_status, seen>>

\* ------------------------------------------------------------- text extractor
\* `if not GROQ_API_KEY`
KeyNeverMissing(key) == FALSE
KeyMissing(key) == key \in {"None", ""}

\* for key, value in data.items(): if isinstance(value, list): ...; break
RECURSIVE FirstList(_, _)
FirstList(values, i) ==
    IF i > Len(values) THEN <<>>
    ELSE IF values[i].kind = "list" THEN values[i].items
    ELSE FirstList(values, i + 1)

\* The same loop without its break: the last list wins.
RECURSIVE LastList(_, _)
LastList(values, i) ==
    IF i > Len(values) THEN <<>>
    ELSE IF values[i].kind = "list" /\ LastList(values, i + 1) = <<>>
         THEN values[i].items
    ELSE LastList(values, i + 1)

LastListValue(values) == LastList(values, 1)
FirstListValue(values) == FirstList(values, 1)

\* The body of the try block: [raised, value].
Raised == [raised |-> TRUE, value |-> <<>>]
Returned(v) == [raised |-> FALSE, value |-> v]
TryExtract(response) ==
    CASE response.kind = "transport_error" -> Raised      \* create(...) raises
      [] response.kind = "invalid_json" -> Raised         \* json.loads raises
      [] response.kind = "list" -> Returned(LowerAll(response.items))
      [] response.kind = "object" ->
            LET extracted_list == FirstListValue(response.values)
            IN  IF extracted_list = <<>> THEN Raised      \* raise ValueError
                ELSE Returned(LowerAll(extracted_list))
      [] OTHER -> Raised                                  \* data.items(): AttributeError

\* try: ... except Exception: return []
extract_objects_with_llm(response) ==
    IF TryExtract(response).raised THEN <<>> ELSE TryExtract(response).value

\* ------------------------------------------------------------- detector
\* detected_objects = set()
StaleDetected == detected_objects
FreshDetected == {}

\* for result in results: for box in boxes: detected_objects.add(class_name.lower())
AddBoxes(acc, boxes) == acc \cup {Lower(boxes[i]) : i \in DOMAIN boxes}

\* ------------------------------------------------------------- orchestrator
\* `if not caption_objects`
CaptionNeverEmpty(list) == FALSE
CaptionEmptyInverted(list) == list # <<>>
CaptionEmpty(list) == list = <<>>

\* `if not image_objects`
ImageNeverEmpty(set) == FALSE
ImageEmpty(set) == set = {}

\* hallucinated_objects = caption_set - image_set
HallucinatedSwapped(caption_set, image_set) == image_set \ caption_set
Hallucinated(caption_set, image_set) == caption_set \ image_set

\* verified_objects = caption_set.intersection(image_set)
Verified(caption_set, image_set) == caption_set \cap image_set

\* ------------------------------------------------------------- history
\* The input of a run of verify_caption and what it produced.
CurrentInput == [key |-> GROQ_API_KEY, data |-> data, results |-> results]
CurrentOutcome ==
    [outcome |-> outcome, verified |-> verified_objects,
     hallucinated |-> hallucinated_objects]

\* Inputs whose outcome is remembered across runs.
Remembered ==
    { [key |-> "gsk", data |-> Response("list", <<Dog, Cat>>, <<>>),
       results |-> Results("ok", <<dog, tv>>)],
      [key |-> "gsk", data |-> Response("list", <<Cat>>, <<>>),
       results |-> Results("ok", <<>>)] }

Invoked == Len(calls) > 0 /\ calls[1] = "verify_caption"

\* ------------------------------------------------------------- actions
Init ==
    /\ pc = "setup"
    /\ GROQ_API_KEY \in KeyValues
    /\ asset_cached \in BOOLEAN
    /\ data = NoResponse
    /\ results = NoResults
    /\ caption_objects = <<>>
    /\ detected_objects = {}
    /\ image_objects = {}
    /\ verified_objects = {}
    /\ hallucinated_objects = {}
    /\ calls = <<>>
    /\ outcome = "none"
    /\ exit_status = 0
    /\ seen = << >>

\* setup_environment(): downloads the sample image unless it is on disk;
\* exit(1) when the download fails.
SetupEnvironment ==
    /\ pc = "setup"
    /\ \E download_ok \in BOOLEAN :
          IF asset_cached \/ download_ok
          THEN /\ asset_cached' = TRUE
               /\ pc' = "main"
               /\ UNCHANGED <<outcome, exit_status>>
          ELSE /\ pc' = "exit"
               /\ outcome' = "download_failed"
               /\ exit_status' = 1
               /\ UNCHANGED asset_cached
    /\ UNCHANGED <<GROQ_API_KEY, data, results, caption_objects, detected_objects,
                   image_objects, verified_objects, hallucinated_objects, calls,
                   seen>>

\* main(): returns when the image path does not exist, else calls
\* verify_caption.  The default path exists once setup_environment succeeded.
Main ==
    /\ pc = "main"
    /\ \E image_exists \in BOOLEAN :
          IF ~image_exists
          THEN /\ pc' = "exit"             \* print(...); return
               /\ outcome' = "image_not_found"
               /\ exit_status' = 0
               /\ UNCHANGED calls
          ELSE /\ pc' = "step1"
               /\ calls' = Append(calls, "verify_caption")
               /\ UNCHANGED <<outcome, exit_status>>
    /\ UNCHANGED <<GROQ_API_KEY, asset_cached, data, results, caption_objects,
                   detected_objects, image_objects, verified_objects,
                   hallucinated_objects, seen>>

\* verify_caption, step 1: caption_objects = extract_objects_with_llm(caption).
\* The key check is outside the try block: its ValueError leaves
\* verify_caption and main, and the interpreter exits with status 1.
Step1 ==
    /\ pc = "step1"
    /\ IF KeyMissing(GROQ_API_KEY)
       THEN /\ pc' = "exit"
            /\ outcome' = "config_error"
            /\ exit_status' = 1
            /\ UNCHANGED <<data, caption_objects, calls>>
       ELSE \E response \in LlmResponses :
            /\ data' = response
            /\ calls' = Append(calls, "llm")
            /\ caption_objects' = extract_objects_with_llm(response)
            /\ IF CaptionEmpty(caption_objects')
               THEN /\ pc' = "exit"
                    /\ outcome' = "extraction_failure"
                    /\ UNCHANGED exit_status
               ELSE /\ pc' = "step2"
                    /\ UNCHANGED <<outcome, exit_status>>
    /\ UNCHANGED <<GROQ_API_KEY, asset_cached, results, detected_objects,
                   image_objects, verified_objects, hallucinated_objects, seen>>

\* verify_caption, step 2: image_objects = detect_objects_with_yolo(image_path).
\* The detector has no try block: an exception of YOLO(...) or model(...)
\* leaves verify_caption and main.
Step2 ==
    /\ pc = "step2"
    /\ \E r \in YoloResults :
        /\ results' = r
        /\ calls' = Append(calls, "yolo")
        /\ IF r.kind = "error"
           THEN /\ pc' = "exit"
                /\ outcome' = "fault"
                /\ exit_status' = 1
                /\ UNCHANGED <<detected_objects, image_objects>>
           ELSE /\ detected_objects' = AddBoxes(FreshDetected, r.boxes)
                /\ image_objects' = detected_objects'
                /\ IF ImageEmpty(image_objects')
                   THEN /\ pc' = "exit"
                        /\ outcome' = "no_detections"
                        /\ UNCHANGED exit_status
                   ELSE /\ pc' = "step3"
                        /\ UNCHANGED <<outcome, exit_status>>
    /\ UNCHANGED <<GROQ_API_KEY, asset_cached, data, caption_objects,
                   verified_objects, hallucinated_objects, seen>>

\* verify_caption, step 3: compare and report.
Step3 ==
    /\ pc = "step3"
    /\ LET caption_set == ToSet(caption_objects)
           image_set == image_objects
       IN  /\ hallucinated_objects' = Hallucinated(caption_set, image_set)
           /\ verified_objects' = Verified(caption_set, image_set)
    /\ calls' = Append(calls, "compare")
    /\ outcome' = "report"
    /\ pc' = "exit"
    /\ UNCHANGED <<GROQ_API_KEY, asset_cached, data, results, caption_objects,
                   detected_objects, image_objects, exit_status, seen>>

\* The script is run again: a new process imports the module (load_dotenv,
\* GROQ_API_KEY) and verify_caption's locals are unbound again.  Only the
\* disk (asset_cached) is carried over.  detected_objects keeps its last
\* value here: it is line 74 of the detector that creates it anew.  The
\* finished run is entered in the history.
Restart ==
    /\ pc = "exit"
    /\ seen' = IF Invoked /\ CurrentInput \in Remembered
                  /\ CurrentInput \notin DOMAIN seen
               THEN [i \in DOMAIN seen \cup {CurrentInput} |->
                        IF i = CurrentInput THEN CurrentOutcome ELSE seen[i]]
               ELSE seen
    /\ pc' = "setup"
    /\ GROQ_API_KEY' \in KeyValues
    /\ data' = NoResponse
    /\ results' = NoResults
    /\ caption_objects' = <<>>
    /\ image_objects' = {}
    /\ verified_objects' = {}
    /\ hallucinated_objects' = {}
    /\ calls' = <<>>
    /\ outcome' = "none"
    /\ exit_status' = 0
    /\ UNCHANGED <<asset_cached, detected_objects>>

Next ==
    \/ SetupEnvironment
    \/ Main
    \/ Step1
    \/ Step2
    \/ Step3
    \/ Restart

Spec == Init /\ [][Next]_vars

\* ------------------------------------------------------------- properties
TypeOK ==
    /\ pc \in {"setup", "main", "step1", "step2", "step3", "exit"}
    /\ GROQ_API_KEY \in KeyValues
    /\ asset_cached \in BOOLEAN
    /\ data \in LlmResponses \cup {NoResponse}
    /\ results \in YoloResults \cup {NoResults}
    /\ outcome \in {"none", "download_failed", "image_not_found", "config_error",
                    "extraction_failure", "fault", "no_detections", "report"}
    /\ exit_status \in {0, 1}

\* Leading and trailing blanks removed (str.strip).
RECURSIVE TrimLeft(_)
TrimLeft(s) == IF s # <<>> /\ Head(s) = " " THEN TrimLeft(Tail(s)) ELSE s
RECURSIVE TrimRight(_)
TrimRight(s) ==
    IF s # <<>> /\ s[Len(s)] = " " THEN TrimRight(SubSeq(s, 1, Len(s) - 1)) ELSE s
Trim(s) == TrimLeft(TrimRight(s))

CaptionSet == ToSet(caption_objects)

\* C1: whenever verify_caption reports, an object is verified iff it is a
\* caption object and a detected object, and hallucinated iff it is a caption
\* object and not a detected object; so the two sets partition the caption
\* objects, verified lies within the detected objects, and a detected object
\* that the caption does not mention is in neither set.
C1_Reconciliation ==
    outcome = "report" =>
        /\ \A x \in CaptionSet \cup image_objects \cup verified_objects
                    \cup hallucinated_objects :
              /\ x \in verified_objects <=> (x \in CaptionSet /\ x \in image_objects)
              /\ x \in hallucinated_objects <=> (x \in CaptionSet /\ x \notin image_objects)
        /\ verified_objects \cup hallucinated_objects = CaptionSet
        /\ verified_objects \cap hallucinated_objects = {}
        /\ verified_objects \subseteq image_objects
        /\ \A x \in image_objects \ CaptionSet :
              x \notin verified_objects \cup hallucinated_objects

C1_Witness ==
    /\ outcome = "report"
    /\ verified_objects # {}
    /\ hallucinated_objects # {}
    /\ image_objects \ CaptionSet # {}

IsPrefix(s, t) == Len(s) <= Len(t) /\ \A i \in DOMAIN s : s[i] = t[i]
InCalls(name) == \E i \in DOMAIN calls : calls[i] = name

\* C2: within a run of verify_caption the text service, the detector and the
\* comparison are invoked in that order, and when the extraction gives an
\* empty list the run has ended with the extraction failure, without the
\* detector or the comparison having been invoked.
C2_StepOrder ==
    /\ IsPrefix(calls, <<"verify_caption", "llm", "yolo", "compare">>)
    /\ (InCalls("llm") /\ caption_objects = <<>>) =>
          /\ pc = "exit"
          /\ outcome = "extraction_failure"
          /\ calls = <<"verify_caption", "llm">>
          /\ results = NoResults

C2_Witness ==
    /\ pc = "exit"
    /\ data.kind = "object"
    /\ caption_objects = <<>>
    /\ outcome = "extraction_failure"
    /\ calls = <<"verify_caption", "llm">>

\* C3: when the extraction gave a non-empty list and the detector returned
\* no box, the run has ended with the no-detections failure, and no
\* comparison was made nor any verified or hallucinated set computed.
C3_NoDetections ==
    (caption_objects # <<>> /\ results.kind = "ok" /\ results.boxes = <<>>) =>
        /\ pc = "exit"
        /\ outcome = "no_detections"
        /\ ~InCalls("compare")
        /\ verified_objects = {}
        /\ hallucinated_objects = {}

C3_Witness ==
    /\ caption_objects # <<>>
    /\ results = Results("ok", <<>>)
    /\ outcome = "no_detections"

\* C4: an error raised inside either extractor becomes an empty result: a
\* text-service error ends the run as an extraction failure, a detector
\* error ends it as a detection failure, and no run ends in a fault.
C4_ExtractorErrorsCaught ==
    /\ data.kind \in {"transport_error", "invalid_json"} =>
          caption_objects = <<>> /\ outcome = "extraction_failure"
    /\ results.kind = "error" =>
          image_objects = {} /\ outcome = "no_detections"
    /\ outcome # "fault"

\* C5: every name either extractor produced is lowercased and trimmed, so a
\* caption name and a detected name that differ only in case or surrounding
\* blanks are one element, which a report counts as verified.
C5_Normalized ==
    /\ \A x \in CaptionSet \cup image_objects : x = Trim(Lower(x))
    /\ outcome = "report" =>
          \A c \in CaptionSet : \A d \in image_objects :
              Trim(Lower(c)) = Trim(Lower(d)) => c \in verified_objects

IsList(v) == v.kind = "list"
\* list is items, lowercased character by character.
LowercasedFrom(list, items) ==
    /\ Len(list) = Len(items)
    /\ \A k \in DOMAIN items :
          /\ Len(list[k]) = Len(items[k])
          /\ \A j \in DOMAIN items[k] : list[k][j] = LowerChar(items[k][j])
          /\ \A j \in DOMAIN list[k] : list[k][j] \notin {"D", "C"}

\* C6: once the text service answered, the extractor's result is the
\* lowercased top-level list; or, for an object, the lowercased first value
\* in key order that is a list; or empty when the value is neither a list
\* nor an object with a list value.  {"objects": ["Cat", "Dog"]} gives
\* cat, dog.
C6_ListSelection ==
    InCalls("llm") =>
        /\ data.kind = "list" => LowercasedFrom(caption_objects, data.items)
        /\ data.kind = "object" =>
              \/ \E i \in DOMAIN data.values :
                    /\ IsList(data.values[i])
                    /\ \A j \in 1..(i - 1) : ~IsList(data.values[j])
                    /\ LowercasedFrom(caption_objects, data.values[i].items)
              \/ /\ \A i \in DOMAIN data.values : ~IsList(data.values[i])
                 /\ caption_objects = <<>>
        /\ data.kind \notin {"list", "object"} => caption_objects = <<>>
        /\ data = Response("object", <<>>, <<ListValue(<<Cat, Dog>>)>>) =>
              caption_objects = <<cat, dog>>

C6_Witness ==
    /\ data.kind = "object"
    /\ Len(data.values) = 2
    /\ IsList(data.values[1]) /\ IsList(data.values[2])
    /\ data.values[1].items = <<Cat>>
    /\ data.values[2].items = <<Dog>>
    /\ caption_objects = <<cat>>

C8_MissingImageExitsNonZero ==
    outcome = "image_not_found" => (exit_status # 0 /\ ~Invoked)

\* C9: a finished run of verify_caption whose credential and service
\* responses equal those of an earlier run has the outcome of that earlier
\* run (failure kind, verified and hallucinated sets), whatever ran between.
C9_NoStateAcrossRuns ==
    (pc = "exit" /\ Invoked /\ CurrentInput \in DOMAIN seen) =>
        seen[CurrentInput] = CurrentOutcome

C9_Witness ==
    /\ pc = "exit"
    /\ Invoked
    /\ Cardinality(DOMAIN seen) = 2
    /\ CurrentInput \in DOMAIN seen
    /\ outcome = "report"
    /\ detected_objects = {dog, tv}

ReportOnlyWhenBothNonEmpty ==
    outcome = "report" =>
        /\ caption_objects # <<>>
        /\ image_objects # {}
        /\ verified_objects \cup hallucinated_objects # {}

====
